---- MODULE Spec2Model ----
(***************************************************************************)
(* The enrichment orchestrator of thedig: Archeologist.person and          *)
(* ExcavatorField (thedig/excavators/archaeology.py) with the record       *)
(* helpers person_set_field and dict_to_person (api/person.py).            *)
(*                                                                         *)
(* A record value is either a bare scalar (a Python str) or a Python set;  *)
(* both are written [isset, elems] so that "str == set" is simply FALSE.   *)
(***************************************************************************)
EXTENDS Integers, Sequences, FiniteSets, TLC

(* ------------------------------ bounds -------------------------------- *)

\* number of excavators registered at startup
MaxExcavators == 2
\* number of (key, value) pairs in one excavator result
MaxResultLen == 1
\* number of person() calls chained on one record (a call on the output of
\* the previous one)
MaxCalls == 2

\* number of records in the list handed to a bulk task
MaxBulkLen == 2

\* number of miner calls followed in one Alchemist.person() call
MaxMinings == 5

\* the atomic values (strings) that inputs and endpoints draw from
AtomNames == <<"Acme Corp", "Acme">>
Atoms == {AtomNames[i] : i \in 1..Len(AtomNames)}

(* ------------------------------ values -------------------------------- *)

Scalar(a) == [isset |-> FALSE, elems |-> {a}]
SetOf(S) == [isset |-> TRUE, elems |-> S]
\* Python truthiness of a value: a non-empty str or a non-empty set
Truthy(v) == v.elems # {}
\* the str '' (falsy)
EmptyValue == [isset |-> FALSE, elems |-> {}]
\* the members of the set literal {v, } made of a bare value v
Members(v) == IF v = EmptyValue THEN {""} ELSE v.elems
\* the value True of the OptOut key
TrueValue == Scalar("True")

(* --------------------------- schema (Person) --------------------------- *)

\* Person.__annotations__: the fields annotated set[...]
SetFields ==
  {"homeLocation", "alternateName", "description", "identifier", "image",
   "jobTitle", "knowsLanguage", "nationality", "sameAs", "workLocation",
   "worksFor"}
\* Person.__annotations__: the other fields
ScalarFields == {"name", "email", "familyName", "givenName", "OptOut", "url"}
PersonFields == SetFields \cup ScalarFields

\* RE_SET.match(str(Person.__annotations__[field]))
is_field_set(field) == field \in SetFields

\* Archeologist._ordered_elements
ordered_elements == <<"url", "sameAs", "email", "image", "description", "name">>
OrderedSet == {ordered_elements[i] : i \in 1..Len(ordered_elements)}

(* ----------------------- dictionaries as functions --------------------- *)

EmptyDict == [k \in {} |-> SetOf({})]
DictSet(d, k, v) == [x \in (DOMAIN d) \cup {k} |-> IF x = k THEN v ELSE d[x]]

\* all orderings of a finite set, as sequences without repetition
Perms(S) ==
  {s \in [1..Cardinality(S) -> S] : \A i, j \in 1..Cardinality(S) : s[i] = s[j] => i = j}

(* ------------------------- api/person.py helpers ----------------------- *)

\* person_set_field, with the set union replaced by plain assignment
person_set_field_replace(person, field, value) ==
  DictSet(person, field, IF is_field_set(field) THEN SetOf(value.elems) ELSE value)

\* person_set_field(person, field, value): a set-annotated field is created
\* empty or wrapped into a set when it holds a bare value, then unioned with
\* the value (itself a set or a bare value); any other field is assigned
person_set_field(person, field, value) ==
  IF is_field_set(field)
    THEN LET stored == IF field \notin DOMAIN person THEN {}
                       ELSE IF person[field].isset THEN person[field].elems
                       ELSE Members(person[field])
             added == IF value.isset THEN value.elems ELSE Members(value)
         IN DictSet(person, field, SetOf(stored \cup added))
    ELSE DictSet(person, field, value)

\* dict_to_person leaving every value as the endpoint gave it
CoerceValueNone(k, v) == v

\* dict_to_person(p_exc) on one item: a bare value of a set-annotated field
\* is wrapped into a singleton set
CoerceValue(k, v) == IF is_field_set(k) /\ ~v.isset THEN SetOf(Members(v)) ELSE v

\* dict_to_person over the items of a result (a sequence of [k, v] pairs)
dict_to_person(p_exc) ==
  [i \in 1..Len(p_exc) |-> [k |-> p_exc[i].k, v |-> CoerceValue(p_exc[i].k, p_exc[i].v)]]

\* Person.__annotations__[k] raises KeyError for a key that is no Person field
HasUnknownKey(p_exc) == \E i \in 1..Len(p_exc) : p_exc[i].k \notin PersonFields

\* person_ta.validate_python(p_exc): a str field does not accept a set and a
\* set field does not accept a str
ValidPerson(p_exc) ==
  \A i \in 1..Len(p_exc) :
    IF is_field_set(p_exc[i].k) THEN p_exc[i].v.isset ELSE ~p_exc[i].v.isset

HasKey(p_exc, key) == \E i \in 1..Len(p_exc) : p_exc[i].k = key

(* --------------------------- ExcavatorField ---------------------------- *)

\* the write guard of upgrade with the policy test left out
MayOverwriteAlways(excavator, k) == TRUE

\* upgrade: "k in self.excavator['update'] or self.excavator['catchall']"
MayOverwrite(excavator, k) == k \in excavator.update \/ excavator.catchall

\* upgrade writing the value without reporting it
upgrade_unreported(person, excavator, k, v) ==
  [person |-> person_set_field(person, k, v), modified |-> FALSE, branch |-> "insert mode"]

\* ExcavatorField.upgrade(k, v) on record person: the record afterwards, the
\* value returned (None counts as FALSE) and the branch taken
upgrade(person, excavator, k, v) ==
  IF k = "alternateName" /\ "name" \in DOMAIN person /\ v = person["name"]
    THEN [person |-> person, modified |-> FALSE, branch |-> "alternateName == name"]
  ELSE IF k \notin DOMAIN person
    THEN [person |-> person_set_field(person, k, v), modified |-> TRUE, branch |-> "add"]
  ELSE IF person[k] = v
    THEN [person |-> person, modified |-> FALSE, branch |-> "existing value"]
  ELSE IF MayOverwrite(excavator, k)
    THEN [person |-> person_set_field(person, k, v), modified |-> TRUE, branch |-> "update"]
  ELSE [person |-> person, modified |-> FALSE, branch |-> "insert mode"]

\* excavate: the filter building p_eligible
Eligible(excavator, k, v) ==
  Truthy(v) /\ (excavator.catchall \/ k \in excavator.update \/ k \in excavator.insert)

\* excavate: the comprehension calling upgrade on every eligible item, in
\* the order of the result; yields the record, the set upgraded and the list
\* of merges done (one entry per call of upgrade)
RECURSIVE UpgradeAll(_, _, _, _, _, _)
UpgradeAll(person, excavator, p_exc, i, upgraded, merges) ==
  IF i > Len(p_exc)
    THEN [person |-> person, upgraded |-> upgraded, merges |-> merges]
  ELSE IF ~Eligible(excavator, p_exc[i].k, p_exc[i].v)
    THEN UpgradeAll(person, excavator, p_exc, i + 1, upgraded, merges)
  ELSE LET u == upgrade(person, excavator, p_exc[i].k, p_exc[i].v)
       IN UpgradeAll(u.person, excavator, p_exc, i + 1,
                     IF u.modified THEN upgraded \cup {p_exc[i].k} ELSE upgraded,
                     Append(merges, [k |-> p_exc[i].k, v |-> p_exc[i].v,
                                     before |-> person, after |-> u.person,
                                     modified |-> u.modified, branch |-> u.branch]))

\* ExcavatorField.excavate once the endpoint has returned p_exc (run has
\* coerced it): nothing for an empty result, {"Optout"} for an OptOut
\* result, else the merges
excavate(person, excavator, p_exc) ==
  IF p_exc = <<>>
    THEN [person |-> person, upgraded |-> {}, merges |-> <<>>]
  ELSE IF HasKey(p_exc, "OptOut")
    THEN [person |-> person, upgraded |-> {"Optout"}, merges |-> <<>>]
  ELSE UpgradeAll(person, excavator, p_exc, 1, {}, <<>>)

(* ------------------------- inputs of the model ------------------------- *)

\* registrations of the kinds the service module makes with @ar.register:
\* a catch-all excavator on name (as linkedin), an excavator on name with an
\* insert list (as bio and country have one) and an excavator on image with
\* an update list (as worksfor and exc_gravatar have one).  The first two
\* take named parameters (as linkedin(name, email, worksFor)), the third a
\* dict (as image(p: dict)), which is_person_param tells
Declarations ==
  {[endpoint |-> "catchall_name", field |-> "name", update |-> {}, insert |-> {},
    parameters |-> {"name", "alternateName"}, is_person_param |-> FALSE],
   [endpoint |-> "insert_name", field |-> "name", update |-> {},
    insert |-> {"name", "alternateName"},
    parameters |-> {"name", "image"}, is_person_param |-> FALSE],
   [endpoint |-> "update_image", field |-> "image",
    update |-> {"name", "alternateName"}, insert |-> {},
    parameters |-> {"p"}, is_person_param |-> TRUE]}
Endpoints == {d.endpoint : d \in Declarations}

\* a registration on a field that is not in _ordered_elements
BadDeclarations ==
  {[endpoint |-> "worksfor_company", field |-> "worksFor", update |-> {},
    insert |-> {}, parameters |-> {"worksFor"}, is_person_param |-> FALSE]}

\* the keys and values an endpoint may return
ResultKeys == {"name", "image", "alternateName", "OptOut"}
ResultValues(k) ==
  IF k = "OptOut" THEN {TrueValue}
  ELSE {Scalar(a) : a \in Atoms} \cup {SetOf({a}) : a \in Atoms} \cup {SetOf({})}
ResultItems == UNION {{[k |-> k, v |-> v] : v \in ResultValues(k)} : k \in ResultKeys}
\* a result is a dict: a list of items with distinct keys; None and {} are <<>>
Results ==
  UNION {{r \in [1..n -> ResultItems] : \A i, j \in 1..n : r[i].k = r[j].k => i = j}
         : n \in 0..MaxResultLen}

\* results holding the str '' for a field annotated str or set[str]
EmptyValueResults ==
  {<<[k |-> k, v |-> EmptyValue]>> : k \in {"name", "alternateName"}}

\* the records handed to person(): name is always there, image and
\* alternateName may be; a set-annotated field may hold a bare value
InputPersons ==
  LET nm == [k \in {"name"} |-> Scalar(AtomNames[1])]
      imgs == {EmptyDict, [k \in {"image"} |-> Scalar(AtomNames[1])],
               [k \in {"image"} |-> SetOf({AtomNames[1]})]}
      alts == {EmptyDict, [k \in {"alternateName"} |-> SetOf({AtomNames[2]})]}
  IN {[k \in DOMAIN nm \cup DOMAIN i \cup DOMAIN a |->
         IF k \in DOMAIN nm THEN nm[k] ELSE IF k \in DOMAIN i THEN i[k] ELSE a[k]]
      : i \in imgs, a \in alts}

\* the records and results where several person() calls are followed (two
\* concurrent requests, the records of a bulk task)
PairInputs ==
  {p \in InputPersons :
     /\ "alternateName" \notin DOMAIN p
     /\ "image" \in DOMAIN p => p["image"].isset}
PairResults ==
  {r \in Results :
     /\ Len(r) <= 1
     /\ Len(r) = 1 => (r[1].k \in {"name", "image"} /\ r[1].v = Scalar(AtomNames[2]))}

(* -------------------------------- state -------------------------------- *)

VARIABLES
  excavators,   \* Archeologist.excavators: trigger field -> list of excavators
  ar_fields,    \* Archeologist.fields: the fields having an excavator
  pc,           \* where the person() coroutine stands
  person,       \* the caller's record, mutated in place
  fields,       \* person(): the part of the list fields not yet iterated
  field,        \* person(): the field of the current iteration
  ei,           \* person(): position in self.excavators[field]
  exc,          \* person(): endpoint -> list of (field, value) already presented
  upgraded,     \* person(): the set upgraded of the current field
  modified,     \* person(): the flag modified
  ret,          \* the value returned by the last person() call
  call,         \* number of person() calls made on this record
  invocations,  \* history: the endpoint calls of this session, with the value
                \* of the trigger field at the time of the call
  merges,       \* history: the calls of upgrade made by the excavate that just ended
  optout,       \* history: an endpoint of this session returned OptOut
  failed,       \* history: an endpoint of this session raised
  outputs,      \* history: endpoint -> the results it has returned, kept only
                \* where endpoints are held to one result each (SpecSame)
  written,      \* history: the keys upgrade has reported as written in this session,
                \* kept only where the returns are traced (SpecTraced)
  coerced,      \* history: the keys the last excavate has added from a bare value
                \* that run() had wrapped into a set (SpecTraced)
  bound,        \* the argument(s) the endpoint being awaited was called with
  peer,         \* the frame (locals and record) of a second person() coroutine
                \* of the same event loop, the one that is not running now
  miners,       \* Alchemist.miners: element -> list of miners
  elements,     \* Alchemist.elements: the elements having a miner
  al_loaded,    \* the miner functions that Alchemist.register has handed back
                \* to the module being loaded
  bulk,         \* persons_bulk_background: what is left of persons, the list
                \* results, and whether it was posted to the webhook
  cache,        \* ar.cache: whether main.py has attached it, and what the store
                \* holds under each key
  optreq,       \* the person_optout request made, and how the handler ended
  mined,        \* Alchemist._mined: element -> miner -> list of values presented
  snapshot      \* history: the record as it was when the person() call began and
                \* when the pass over the current field began, kept only where
                \* the returns are followed so (SpecSnapshot)

vars == <<excavators, ar_fields, pc, person, fields, field, ei, exc, upgraded,
          modified, ret, call, invocations, merges, optout, failed, outputs,
          written, coerced, bound, peer, miners, elements, al_loaded, bulk,
          cache, optreq, mined, snapshot>>

\* the person cache and the opt-out request
gdpr == <<cache, optreq>>

\* the state that no step of the person() coroutine now running touches
elsewhere == <<peer, miners, elements, al_loaded, bulk, gdpr, mined>>

NoReturn == [modified |-> FALSE, person |-> EmptyDict]

\* no bulk task
NoBulk == [active |-> FALSE, persons |-> <<>>, results |-> <<>>, posted |-> FALSE]

\* a string kept in the store, or used as a key of it, as it is
Plain(s) == [digest |-> FALSE, of |-> s]

\* hashlib.sha256(s.encode("utf-8")).hexdigest(): the digest stands for
\* itself, two strings having the same one only when they are the same, and
\* no digest being one of the strings of the model
sha256(s) == [digest |-> TRUE, of |-> s]

\* the email person_optout puts into the record it stores
DoNotDigEmail == "donotdigme@yopmail.com"

\* the emails of the persons that requests are about
Emails == {"ada@acme.org"}

\* the keys of the store that person_optout may read or write
CacheKeys == {sha256(e) : e \in Emails \cup {DoNotDigEmail}}

\* what the store holds under a key: nothing, or the JSON of a record, of
\* which the name and the key OptOut ("absent", "false" or "true") matter
NoEntry == [present |-> FALSE, name |-> Plain(""), OptOut |-> "absent"]
Entry(name, oo) == [present |-> TRUE, name |-> name, OptOut |-> oo]

\* the record person_optout builds: the name hashed, OptOut True
OptOutMarker(name) == Entry(sha256(name), "true")

\* ar.cache before main.py's lifespan has set it
NoCache == [attached |-> FALSE, store |-> [k \in CacheKeys |-> NoEntry]]

\* no person_optout request yet
NoRequest == [email |-> "", name |-> "", outcome |-> "none"]

\* no record kept
NoSnapshot == [taken |-> FALSE, person |-> EmptyDict]
NoSnapshots == [call |-> NoSnapshot, pass |-> NoSnapshot]

\* the locals of a person() coroutine together with the record it works on
\* and the history kept of it
Frame ==
  [pc |-> pc, person |-> person, fields |-> fields, field |-> field, ei |-> ei,
   exc |-> exc, upgraded |-> upgraded, modified |-> modified, ret |-> ret,
   call |-> call, invocations |-> invocations, merges |-> merges,
   optout |-> optout, failed |-> failed, written |-> written,
   coerced |-> coerced, bound |-> bound, snapshot |-> snapshot]

\* the frame of a request that has not been received yet
IdleFrame ==
  [pc |-> "idle", person |-> EmptyDict, fields |-> <<>>, field |-> "none", ei |-> 1,
   exc |-> [e \in Endpoints |-> <<>>], upgraded |-> {}, modified |-> FALSE,
   ret |-> NoReturn, call |-> 0, invocations |-> <<>>, merges |-> <<>>,
   optout |-> FALSE, failed |-> FALSE, written |-> {}, coerced |-> {},
   bound |-> EmptyDict, snapshot |-> NoSnapshots]

\* Archeologist.__init__
Init ==
  /\ excavators = [k \in OrderedSet |-> <<>>]
  /\ ar_fields = {}
  /\ pc = "startup"
  /\ person = EmptyDict
  /\ fields = <<>>
  /\ field = "none"
  /\ ei = 1
  /\ exc = [e \in Endpoints |-> <<>>]
  /\ upgraded = {}
  /\ modified = FALSE
  /\ ret = NoReturn
  /\ call = 0
  /\ invocations = <<>>
  /\ merges = <<>>
  /\ optout = FALSE
  /\ failed = FALSE
  /\ outputs = [e \in Endpoints |-> {}]
  /\ written = {}
  /\ coerced = {}
  /\ bound = EmptyDict
  /\ peer = IdleFrame
  /\ miners = [k \in OrderedSet |-> <<>>]
  /\ elements = {}
  /\ al_loaded = {}
  /\ bulk = NoBulk
  /\ cache = NoCache
  /\ optreq = NoRequest
  /\ snapshot = NoSnapshots
  /\ mined = [k \in OrderedSet |-> <<>>]

Registered == UNION {{excavators[k][i].endpoint : i \in 1..Len(excavators[k])} : k \in OrderedSet}

\* Archeologist.register(field=, update=, insert=)(excavator_func), called by
\* the decorators while the service module is loaded
Register(kw) ==
  /\ pc = "startup"
  /\ Cardinality(Registered) < MaxExcavators
  /\ kw.endpoint \notin Registered
  /\ kw.field \in OrderedSet
  /\ LET excavator_param ==
           [field |-> kw.field, update |-> kw.update, insert |-> kw.insert,
            endpoint |-> kw.endpoint, parameters |-> kw.parameters,
            catchall |-> (kw.insert = {} /\ kw.update = {}),
            person_param |-> kw.is_person_param]
     IN /\ excavators' = [excavators EXCEPT ![kw.field] = Append(@, excavator_param)]
        /\ ar_fields' = ar_fields \cup {kw.field}
  /\ UNCHANGED <<pc, person, fields, field, ei, exc, upgraded, modified, ret, call,
                 invocations, merges, optout, failed, outputs, snapshot,
                 written, coerced, bound>>
  /\ UNCHANGED elsewhere

\* Archeologist.register on a field that is not in _ordered_elements: the
\* decorator raises ValueError before it has touched anything, and the
\* module that was being loaded is not
RegisterRaises(kw) ==
  /\ pc = "startup"
  /\ kw.field \notin OrderedSet
  /\ pc' = "misconfigured"
  /\ UNCHANGED <<excavators, ar_fields, person, fields, field, ei, exc, upgraded,
                 modified, ret, call, invocations, merges, optout, failed, outputs, snapshot,
                 written, coerced, bound>>
  /\ UNCHANGED elsewhere

MinersRegistered == UNION {{miners[k][i].endpoint : i \in 1..Len(miners[k])} : k \in OrderedSet}

\* Alchemist.register(element=, update=, insert=)(miner_func): the miner is
\* added when its element is in _ordered_elements; when it is not, the
\* decorator only hands the function back
AlchemistRegister(kw) ==
  /\ Cardinality(al_loaded) < MaxExcavators
  /\ kw.endpoint \notin al_loaded
  /\ IF kw.field \in OrderedSet
       THEN LET miner_param ==
                  [element |-> kw.field, update |-> kw.update, insert |-> kw.insert,
                   endpoint |-> kw.endpoint, parameters |-> kw.parameters,
                   catchall |-> (kw.insert = {} /\ kw.update = {}),
                   person_param |-> kw.is_person_param]
            IN /\ miners' = [miners EXCEPT ![kw.field] = Append(@, miner_param)]
               /\ elements' = elements \cup {kw.field}
       ELSE UNCHANGED <<miners, elements>>
  /\ al_loaded' = al_loaded \cup {kw.endpoint}
  /\ UNCHANGED <<excavators, ar_fields, pc, person, fields, field, ei, exc, upgraded,
                 modified, ret, call, invocations, merges, optout, failed, outputs, snapshot,
                 written, coerced, bound, peer, bulk, gdpr, mined>>

\* person(): everything up to the for loop, on record p
EnterPerson(p) ==
  /\ person' = p
  /\ fields' \in Perms(DOMAIN p \cap ar_fields)
  /\ exc' = [e \in Endpoints |-> <<>>]
  /\ modified' = FALSE
  /\ upgraded' = {}
  /\ field' = "none"
  /\ ei' = 1
  /\ pc' = "fields"
  /\ call' = call + 1
  /\ invocations' = <<>>
  /\ merges' = <<>>
  /\ optout' = FALSE
  /\ failed' = FALSE
  /\ written' = {}
  /\ coerced' = {}
  /\ bound' = EmptyDict
  /\ snapshot' = NoSnapshots
  /\ UNCHANGED <<excavators, ar_fields, ret, outputs>>

\* a caller (person_email, person_post, the websocket) calls ar.person(p)
Person(p) ==
  /\ pc = "startup"
  /\ EnterPerson(p)
  /\ UNCHANGED elsewhere

\* the caller calls ar.person again on the record it got back
PersonAgain ==
  /\ pc = "done"
  /\ call < MaxCalls
  /\ ret.modified
  /\ EnterPerson(ret.person)
  /\ UNCHANGED elsewhere

\* the ledger test with the history ignored
already_excavated_never(ledger, fld, p) == FALSE

\* person(): "(field, person[field]) in exc[excavator['endpoint']]".  An
\* entry made while the field held a str is compared by value; an entry made
\* while it held a set holds that very set object, which person_set_field
\* grows in place and never replaces, so it equals the field's current value
already_excavated(ledger, fld, p) ==
  \E i \in 1..Len(ledger) :
    /\ ledger[i].field = fld
    /\ IF ledger[i].ref THEN p[fld].isset ELSE ledger[i].val = p[fld]

\* the tuple appended to exc[endpoint]
LedgerEntry(fld, p) ==
  IF p[fld].isset THEN [field |-> fld, ref |-> TRUE, val |-> SetOf({})]
  ELSE [field |-> fld, ref |-> FALSE, val |-> p[fld]]

CurrentExcavator == excavators[field][ei]

\* the endpoint called with the whole record whatever it declares
BoundArgumentsAll(excavator, p) == p

\* the endpoint called with the value of the trigger field and nothing else
BoundArgumentsTrigger(excavator, p) == [k \in {excavator.field} |-> p[k]]

\* run(): what the endpoint is called with: the record itself when it takes
\* a dict, else the fields of the record that are among its parameters
BoundArguments(excavator, p) ==
  IF excavator.person_param
    THEN p
    ELSE [k \in excavator.parameters \cap DOMAIN p |-> p[k]]

\* person(): the for loop takes the next field and enters the inner loop
NextField ==
  /\ pc = "fields"
  /\ fields # <<>>
  /\ field' = Head(fields)
  /\ fields' = Tail(fields)
  /\ upgraded' = {}
  /\ ei' = 1
  /\ pc' = IF Head(fields) \in DOMAIN excavators THEN "excavators" ELSE "fields"
  /\ UNCHANGED <<excavators, ar_fields, person, exc, modified, ret, call,
                 invocations, merges, optout, failed, outputs, snapshot,
                 written, coerced, bound>>
  /\ UNCHANGED elsewhere

\* person(): the excavator has already seen this field/value: continue
SkipExcavator ==
  /\ pc = "excavators"
  /\ ei <= Len(excavators[field])
  /\ already_excavated(exc[CurrentExcavator.endpoint], field, person)
  /\ ei' = ei + 1
  /\ merges' = <<>>
  /\ coerced' = {}
  /\ UNCHANGED <<excavators, ar_fields, pc, person, fields, field, exc, upgraded,
                 modified, ret, call, invocations, optout, failed, outputs, snapshot,
                 written, bound>>
  /\ UNCHANGED elsewhere

\* person(): the field/value is appended to the ledger, then excavate() and
\* run() call the endpoint and the coroutine is suspended on it
Invoke ==
  /\ pc = "excavators"
  /\ ei <= Len(excavators[field])
  /\ ~already_excavated(exc[CurrentExcavator.endpoint], field, person)
  /\ exc' = [exc EXCEPT ![CurrentExcavator.endpoint] = Append(@, LedgerEntry(field, person))]
  /\ invocations' = Append(invocations,
                           [endpoint |-> CurrentExcavator.endpoint, field |-> field,
                            value |-> person[field]])
  /\ bound' = BoundArguments(CurrentExcavator, person)
  /\ pc' = "await"
  /\ merges' = <<>>
  /\ coerced' = {}
  /\ UNCHANGED <<excavators, ar_fields, person, fields, field, ei, upgraded, modified,
                 ret, call, optout, failed, outputs, snapshot, written>>
  /\ UNCHANGED elsewhere

\* the endpoint returns result: run() coerces and validates it (an exception
\* there leaves person() as well), excavate() merges it and person() adds
\* what was upgraded
Returns(result) ==
  /\ pc = "await"
  /\ IF result # <<>> /\ (HasUnknownKey(result) \/ ~ValidPerson(dict_to_person(result)))
       THEN /\ pc' = "raised"
            /\ failed' = TRUE
            /\ UNCHANGED <<person, ei, upgraded, merges, optout>>
       ELSE LET x == excavate(person, CurrentExcavator, dict_to_person(result))
            IN /\ person' = x.person
               /\ upgraded' = upgraded \cup x.upgraded
               /\ merges' = x.merges
               /\ optout' = (optout \/ HasKey(result, "OptOut"))
               /\ ei' = ei + 1
               /\ pc' = "excavators"
               /\ UNCHANGED failed
  /\ bound' = EmptyDict
  /\ UNCHANGED <<excavators, ar_fields, fields, field, exc, modified, ret, call,
                 invocations>>
  /\ UNCHANGED elsewhere

\* an endpoint returning whatever it likes
EndpointReturns(result) ==
  /\ Returns(result)
  /\ UNCHANGED <<outputs, snapshot, written, coerced>>

\* the same, keeping track of the keys upgrade() reports as written, and of
\* those whose bare value run() has wrapped into a set (dict_to_person) and
\* excavate() has then added to the record
EndpointReturnsTraced(result) ==
  /\ Returns(result)
  /\ written' = written \cup
       {merges'[i].k : i \in {j \in 1..Len(merges') : merges'[j].modified}}
  /\ coerced' = {result[i].k : i \in {j \in 1..Len(result) :
                    /\ result[j].v # CoerceValue(result[j].k, result[j].v)
                    /\ \E m \in 1..Len(merges') :
                         merges'[m].k = result[j].k /\ merges'[m].branch = "add"}}
  /\ UNCHANGED <<outputs, snapshot>>

\* the same, keeping the record as it was before the first return of the
\* call and before the first return of the pass over the current field (no
\* other step of person() changes the record)
EndpointReturnsSnapshot(result) ==
  /\ Returns(result)
  /\ snapshot' = [call |-> IF snapshot.call.taken THEN snapshot.call
                           ELSE [taken |-> TRUE, person |-> person],
                  pass |-> IF snapshot.pass.taken THEN snapshot.pass
                           ELSE [taken |-> TRUE, person |-> person]]
  /\ UNCHANGED <<outputs, written, coerced>>

\* an endpoint that returns the same result whenever it is called
EndpointReturnsSame(result) ==
  /\ pc = "await"
  /\ outputs[CurrentExcavator.endpoint] \subseteq {result}
  /\ Returns(result)
  /\ outputs' = [outputs EXCEPT ![CurrentExcavator.endpoint] = {result}]
  /\ UNCHANGED <<written, coerced, snapshot>>

\* the endpoint raises (network error, timeout, malformed response): nothing
\* in run(), excavate() or person() catches it
EndpointRaises ==
  /\ pc = "await"
  /\ pc' = "raised"
  /\ failed' = TRUE
  /\ bound' = EmptyDict
  /\ UNCHANGED <<excavators, ar_fields, person, fields, field, ei, exc, upgraded,
                 modified, ret, call, invocations, merges, optout, outputs, snapshot,
                 written, coerced>>
  /\ UNCHANGED elsewhere

\* person(): after the inner loop, modified is updated and the upgraded
\* fields that have excavators are appended to the list being iterated
EndField ==
  /\ pc = "excavators"
  /\ ei > Len(excavators[field])
  /\ modified' = (IF upgraded # {} THEN TRUE ELSE modified)
  /\ \E to_excavate \in Perms(upgraded \cap ar_fields) : fields' = fields \o to_excavate
  /\ pc' = "fields"
  /\ merges' = <<>>
  /\ coerced' = {}
  /\ snapshot' = [snapshot EXCEPT !.pass = NoSnapshot]
  /\ UNCHANGED <<excavators, ar_fields, person, field, ei, exc, upgraded, ret, call,
                 invocations, optout, failed, outputs, written, bound>>
  /\ UNCHANGED elsewhere

\* person(): the list is exhausted: return modified, (person if modified else {})
ReturnPerson ==
  /\ pc = "fields"
  /\ fields = <<>>
  /\ ret' = [modified |-> modified, person |-> IF modified THEN person ELSE EmptyDict]
  /\ pc' = "done"
  /\ UNCHANGED <<excavators, ar_fields, person, fields, field, ei, exc, upgraded,
                 modified, call, invocations, merges, optout, failed, outputs, snapshot,
                 written, coerced, bound>>
  /\ UNCHANGED elsewhere

Next ==
  \/ \E kw \in Declarations : Register(kw)
  \/ \E p \in InputPersons : Person(p)
  \/ NextField
  \/ SkipExcavator
  \/ Invoke
  \/ \E r \in Results : EndpointReturns(r)
  \/ EndpointRaises
  \/ EndField
  \/ ReturnPerson

Spec == Init /\ [][Next]_vars

\* the same service with endpoints that each return one result only, and a
\* caller that calls person() again on the record it got back
NextSame ==
  \/ \E kw \in Declarations : Register(kw)
  \/ \E p \in InputPersons : Person(p)
  \/ PersonAgain
  \/ NextField
  \/ SkipExcavator
  \/ Invoke
  \/ \E r \in Results : EndpointReturnsSame(r)
  \/ EndField
  \/ ReturnPerson

SpecSame == Init /\ [][NextSame]_vars

\* the same service with the coercions of run() traced
NextTraced ==
  \/ \E kw \in Declarations : Register(kw)
  \/ \E p \in InputPersons : Person(p)
  \/ NextField
  \/ SkipExcavator
  \/ Invoke
  \/ \E r \in Results : EndpointReturnsTraced(r)
  \/ EndpointRaises
  \/ EndField
  \/ ReturnPerson

SpecTraced == Init /\ [][NextTraced]_vars

\* the same service with the record before each call and each pass kept
NextSnapshot ==
  \/ \E kw \in Declarations : Register(kw)
  \/ \E p \in InputPersons : Person(p)
  \/ NextField
  \/ SkipExcavator
  \/ Invoke
  \/ \E r \in Results : EndpointReturnsSnapshot(r)
  \/ EndpointRaises
  \/ EndField
  \/ ReturnPerson

SpecSnapshot == Init /\ [][NextSnapshot]_vars

\* the same service with endpoints that may also return an empty str
NextEmptyValues ==
  \/ \E kw \in Declarations : Register(kw)
  \/ \E p \in InputPersons : Person(p)
  \/ NextField
  \/ SkipExcavator
  \/ Invoke
  \/ \E r \in Results \cup EmptyValueResults : EndpointReturns(r)
  \/ EndpointRaises
  \/ EndField
  \/ ReturnPerson

SpecEmptyValues == Init /\ [][NextEmptyValues]_vars

\* the service modules being loaded: the decorators of both catalogs run
NextStartup ==
  \/ \E kw \in Declarations : Register(kw)
  \/ \E kw \in BadDeclarations : RegisterRaises(kw)
  \/ \E kw \in Declarations \cup BadDeclarations : AlchemistRegister(kw)

SpecStartup == Init /\ [][NextStartup]_vars

\* persons_bulk() hands the list persons to the background task
\* persons_bulk_background, which starts with an empty list results
PersonsBulk(persons) ==
  /\ pc = "startup"
  /\ pc' = "bulk"
  /\ bulk' = [active |-> TRUE, persons |-> persons, results |-> <<>>, posted |-> FALSE]
  /\ UNCHANGED <<excavators, ar_fields, person, fields, field, ei, exc, upgraded,
                 modified, ret, call, invocations, merges, optout, failed, outputs, snapshot,
                 written, coerced, bound, peer, miners, elements, al_loaded, gdpr, mined>>

\* persons_bulk_background: "for p in persons: ... await ar.person(p)"
BulkPerson ==
  /\ pc = "bulk"
  /\ bulk.persons # <<>>
  /\ EnterPerson(Head(bulk.persons))
  /\ bulk' = [bulk EXCEPT !.persons = Tail(@)]
  /\ UNCHANGED <<peer, miners, elements, al_loaded, gdpr, mined>>

\* persons_bulk_background: person() has returned: "if success:
\* results.append(enriched)"
BulkCollect ==
  /\ pc = "done"
  /\ bulk.active
  /\ pc' = "bulk"
  /\ bulk' = [bulk EXCEPT !.results = IF ret.modified THEN Append(@, ret.person) ELSE @]
  /\ UNCHANGED <<excavators, ar_fields, person, fields, field, ei, exc, upgraded,
                 modified, ret, call, invocations, merges, optout, failed, outputs, snapshot,
                 written, coerced, bound, peer, miners, elements, al_loaded, gdpr, mined>>

\* persons_bulk_background: after the loop the list results is posted to the
\* webhook (a failure of the post is logged)
BulkPost ==
  /\ pc = "bulk"
  /\ bulk.persons = <<>>
  /\ pc' = "posted"
  /\ bulk' = [bulk EXCEPT !.posted = TRUE]
  /\ UNCHANGED <<excavators, ar_fields, person, fields, field, ei, exc, upgraded,
                 modified, ret, call, invocations, merges, optout, failed, outputs, snapshot,
                 written, coerced, bound, peer, miners, elements, al_loaded, gdpr, mined>>

\* the lists of records posted to /person/bulk
BulkInputs ==
  UNION {[1..n -> PairInputs] : n \in 1..MaxBulkLen}

\* the service running bulk tasks
NextBulk ==
  \/ \E kw \in Declarations : Register(kw)
  \/ \E persons \in BulkInputs : PersonsBulk(persons)
  \/ BulkPerson
  \/ NextField
  \/ SkipExcavator
  \/ Invoke
  \/ \E r \in PairResults \cup {<<[k |-> "OptOut", v |-> TrueValue]>>} : EndpointReturns(r)
  \/ EndpointRaises
  \/ EndField
  \/ ReturnPerson
  \/ BulkCollect
  \/ BulkPost

SpecBulk == Init /\ [][NextBulk]_vars

\* the task running person() is cancelled while it awaits an endpoint (the
\* client has gone, the server shuts down): CancelledError is raised at the
\* await and, with no except or finally in run(), excavate() or person(),
\* leaves person() without any value returned
Cancel ==
  /\ pc = "await"
  /\ pc' = "cancelled"
  /\ bound' = EmptyDict
  /\ UNCHANGED <<excavators, ar_fields, person, fields, field, ei, exc, upgraded,
                 modified, ret, call, invocations, merges, optout, failed, outputs, snapshot,
                 written, coerced>>
  /\ UNCHANGED elsewhere

\* the same service with callers that may cancel
NextCancel ==
  \/ \E kw \in Declarations : Register(kw)
  \/ \E p \in InputPersons : Person(p)
  \/ NextField
  \/ SkipExcavator
  \/ Invoke
  \/ \E r \in Results : EndpointReturns(r)
  \/ EndpointRaises
  \/ Cancel
  \/ EndField
  \/ ReturnPerson

SpecCancel == Init /\ [][NextCancel]_vars

\* the ledger kept on the Archeologist instead of in the coroutine: the one
\* the coroutine that ran last has left
ResumedLedgerShared(own, running) == running

\* person(): exc is a local of the coroutine ("exc: dict = defaultdict(list)");
\* a coroutine that is resumed finds the ledger it created
ResumedLedger(own, running) == own

\* the event loop: the coroutine that was running is suspended on an endpoint
\* or has ended, and the other one (a request not yet received, or a
\* coroutine whose endpoint has answered) takes over with its own frame
Switch ==
  /\ pc \in {"await", "done", "raised", "idle"}
  /\ peer.pc \in {"await", "idle"}
  /\ peer' = Frame
  /\ pc' = peer.pc
  /\ person' = peer.person
  /\ fields' = peer.fields
  /\ field' = peer.field
  /\ ei' = peer.ei
  /\ exc' = ResumedLedger(peer.exc, exc)
  /\ upgraded' = peer.upgraded
  /\ modified' = peer.modified
  /\ ret' = peer.ret
  /\ call' = peer.call
  /\ invocations' = peer.invocations
  /\ merges' = peer.merges
  /\ optout' = peer.optout
  /\ failed' = peer.failed
  /\ written' = peer.written
  /\ coerced' = peer.coerced
  /\ bound' = peer.bound
  /\ snapshot' = peer.snapshot
  /\ UNCHANGED <<excavators, ar_fields, outputs, miners, elements, al_loaded, bulk, gdpr,
                 mined>>

\* a second request comes in while the first is being served: its handler
\* calls ar.person(p) on a record of its own
PersonConcurrent(p) ==
  /\ pc = "idle"
  /\ EnterPerson(p)
  /\ UNCHANGED elsewhere

\* the service handling two requests at a time
NextPair ==
  \/ \E kw \in Declarations : Register(kw)
  \/ \E p \in PairInputs : Person(p)
  \/ \E p \in PairInputs : PersonConcurrent(p)
  \/ Switch
  \/ NextField
  \/ SkipExcavator
  \/ Invoke
  \/ \E r \in PairResults : EndpointReturns(r)
  \/ EndpointRaises
  \/ EndField
  \/ ReturnPerson

SpecPair == Init /\ [][NextPair]_vars

(* ------------------------------ Alchemist ------------------------------ *)
\* Alchemist.person runs as the coroutine of the model: its locals are kept
\* in person, fields (elements), field (el), ei (the position in
\* self.miners[el]), upgraded and modified

\* the records handed to Alchemist.person() and what its miners return
MinedInputs == PairInputs
MinedResults ==
  {r \in Results :
     /\ Len(r) <= 1
     /\ Len(r) = 1 => (r[1].k \in {"name", "image"} /\ r[1].v.elems = {AtomNames[2]})}

\* mine_element: "person[el] in self._mined[el][miner['endpoint']]"; a set in
\* the list is the set object of the record as long as that record is the
\* one being processed
already_mined(history, el, p) == already_excavated(history, el, p)

\* the value appended to self._mined[el][miner['endpoint']]
MinedEntry(el, p) == LedgerEntry(el, p)

\* the lists of _mined once the record they were filled from is left behind:
\* a set object in them stays as that record's field was at the end
LeftBehind(p) ==
  [k \in OrderedSet |->
     [e \in DOMAIN mined[k] |->
        [i \in 1..Len(mined[k][e]) |->
           IF mined[k][e][i].ref
             THEN [field |-> k, ref |-> FALSE, val |-> p[k]]
             ELSE mined[k][e][i]]]]

\* Alchemist.person(person) on a record of its own, everything up to the
\* for loop; self._mined is what the earlier calls have made of it
AlchemistPerson(p) ==
  /\ pc \in {"startup", "al_done", "al_raised"}
  /\ call < MaxCalls
  /\ person' = p
  /\ fields' \in Perms(DOMAIN p \cap elements)
  /\ modified' = FALSE
  /\ upgraded' = {}
  /\ field' = "none"
  /\ ei' = 1
  /\ pc' = "al_elements"
  /\ call' = call + 1
  /\ invocations' = <<>>
  /\ merges' = <<>>
  /\ optout' = FALSE
  /\ failed' = FALSE
  /\ mined' = LeftBehind(person)
  /\ UNCHANGED <<excavators, ar_fields, exc, ret, outputs, written, coerced, bound,
                 snapshot, peer, miners, elements, al_loaded, bulk, gdpr>>

\* Alchemist.person: the for loop takes the next element; an element
\* without an entry in _mined gets an empty one, which the model does not
\* tell from none
MineNextElement ==
  /\ pc = "al_elements"
  /\ fields # <<>>
  /\ field' = Head(fields)
  /\ fields' = Tail(fields)
  /\ upgraded' = {}
  /\ ei' = 1
  /\ pc' = IF Head(fields) \in DOMAIN miners THEN "al_miners" ELSE "al_elements"
  /\ UNCHANGED <<excavators, ar_fields, person, exc, modified, ret, call, invocations,
                 merges, optout, failed, outputs, written, coerced, bound, snapshot>>
  /\ UNCHANGED elsewhere

CurrentMiner == miners[field][ei]

\* mine_element: the miner has a list in _mined[el] and the value is in it:
\* nothing is mined
SkipMiner ==
  /\ pc = "al_miners"
  /\ ei <= Len(miners[field])
  /\ CurrentMiner.endpoint \in DOMAIN mined[field]
  /\ already_mined(mined[field][CurrentMiner.endpoint], field, person)
  /\ ei' = ei + 1
  /\ merges' = <<>>
  /\ UNCHANGED <<excavators, ar_fields, pc, person, fields, field, exc, upgraded,
                 modified, ret, call, invocations, optout, failed, outputs, written,
                 coerced, bound, snapshot>>
  /\ UNCHANGED elsewhere

\* mine_element: "if miner['endpoint'] not in self._mined[el]:
\* self._mined[el] = {miner['endpoint']: []}", a dict with that miner alone
MinedReset(history, endpoint) ==
  IF endpoint \in DOMAIN history THEN history ELSE [e \in {endpoint} |-> <<>>]

\* mine_element: the value is appended to the miner's list and the miner is
\* called
Mine ==
  /\ pc = "al_miners"
  /\ ei <= Len(miners[field])
  /\ Len(invocations) < MaxMinings
  /\ CurrentMiner.endpoint \in DOMAIN mined[field] =>
       ~already_mined(mined[field][CurrentMiner.endpoint], field, person)
  /\ mined' = [mined EXCEPT ![field] =
                 [MinedReset(@, CurrentMiner.endpoint) EXCEPT
                    ![CurrentMiner.endpoint] = Append(@, MinedEntry(field, person))]]
  /\ invocations' = Append(invocations,
                           [endpoint |-> CurrentMiner.endpoint, field |-> field,
                            value |-> person[field]])
  /\ bound' = BoundArguments(CurrentMiner, person)
  /\ pc' = "al_await"
  /\ merges' = <<>>
  /\ UNCHANGED <<excavators, ar_fields, person, fields, field, ei, exc, upgraded,
                 modified, ret, call, optout, failed, outputs, written, coerced,
                 snapshot, peer, miners, elements, al_loaded, bulk, gdpr>>

\* mine_element once the miner has returned p_mined: nothing for an empty
\* result, person_ta.validate_python on it as it is (an exception there leaves
\* person() as well), {"Optout"} for an OptOut result, else upgrade_person on
\* every eligible item
MinerReturns(p_mined) ==
  /\ pc = "al_await"
  /\ IF p_mined # <<>> /\ ~ValidPerson(p_mined)
       THEN /\ pc' = "al_raised"
            /\ failed' = TRUE
            /\ UNCHANGED <<person, ei, upgraded, merges, optout>>
       ELSE LET x == excavate(person, CurrentMiner, p_mined)
            IN /\ person' = x.person
               /\ upgraded' = upgraded \cup x.upgraded
               /\ merges' = x.merges
               /\ optout' = (optout \/ HasKey(p_mined, "OptOut"))
               /\ ei' = ei + 1
               /\ pc' = "al_miners"
               /\ UNCHANGED failed
  /\ bound' = EmptyDict
  /\ UNCHANGED <<excavators, ar_fields, fields, field, exc, modified, ret, call,
                 invocations, outputs, written, coerced, snapshot>>
  /\ UNCHANGED elsewhere

\* the miner raises: nothing in mine_element or person() catches it
MinerRaises ==
  /\ pc = "al_await"
  /\ pc' = "al_raised"
  /\ failed' = TRUE
  /\ bound' = EmptyDict
  /\ UNCHANGED <<excavators, ar_fields, person, fields, field, ei, exc, upgraded,
                 modified, ret, call, invocations, merges, optout, outputs, written,
                 coerced, snapshot>>
  /\ UNCHANGED elsewhere

\* Alchemist.person: after the miners of the element, modified is updated
\* and the upgraded elements that have miners are appended to the list
EndElement ==
  /\ pc = "al_miners"
  /\ ei > Len(miners[field])
  /\ modified' = (IF upgraded # {} THEN TRUE ELSE modified)
  /\ \E to_mine \in Perms(upgraded \cap elements) : fields' = fields \o to_mine
  /\ pc' = "al_elements"
  /\ merges' = <<>>
  /\ UNCHANGED <<excavators, ar_fields, person, field, ei, exc, upgraded, ret, call,
                 invocations, optout, failed, outputs, written, coerced, bound,
                 snapshot>>
  /\ UNCHANGED elsewhere

\* Alchemist.person: "return modified, person if modified else None"
AlchemistReturn ==
  /\ pc = "al_elements"
  /\ fields = <<>>
  /\ ret' = [modified |-> modified, person |-> IF modified THEN person ELSE EmptyDict]
  /\ pc' = "al_done"
  /\ UNCHANGED <<excavators, ar_fields, person, fields, field, ei, exc, upgraded,
                 modified, call, invocations, merges, optout, failed, outputs,
                 written, coerced, bound, snapshot>>
  /\ UNCHANGED elsewhere

\* the service of the Alchemist: its miners are registered, then person()
\* is called on one record after the other
NextAlchemist ==
  \/ \E kw \in Declarations : pc = "startup" /\ AlchemistRegister(kw)
  \/ \E p \in MinedInputs : AlchemistPerson(p)
  \/ MineNextElement
  \/ SkipMiner
  \/ Mine
  \/ \E r \in MinedResults : MinerReturns(r)
  \/ MinerRaises
  \/ EndElement
  \/ AlchemistReturn

SpecAlchemist == Init /\ [][NextAlchemist]_vars

(* ------------------------------- the cache ------------------------------ *)

\* what the store may hold under the key of a person when the service
\* connects to it: nothing, the JSON of a record (with OptOut false or without
\* that key), or the record of an opt-out
Stores ==
  {[k \in CacheKeys |-> IF k = sha256(e) THEN x ELSE NoEntry] :
     e \in Emails,
     x \in {NoEntry} \cup {Entry(Plain(n), oo) : n \in Atoms, oo \in {"absent", "false"}}
            \cup {OptOutMarker(n) : n \in Atoms}}

\* main.py, lifespan(): "ar.cache = await setup_cache(...)", a client of the
\* Redis store with whatever the store holds
Lifespan(store) ==
  /\ pc = "startup"
  /\ ~cache.attached
  /\ cache' = [attached |-> TRUE, store |-> store]
  /\ UNCHANGED <<excavators, ar_fields, pc, person, fields, field, ei, exc, upgraded,
                 modified, ret, call, invocations, merges, optout, failed, outputs, snapshot,
                 written, coerced, bound, peer, miners, elements, al_loaded, bulk,
                 optreq, mined>>

\* text.replace(' ', '') on the names of the model
Condensed(text) == IF text = Plain("Acme Corp") THEN Plain("AcmeCorp") ELSE text

\* match_name(name, text, fuzzy=False): an empty name matches, else name and
\* text without its spaces are compared, case folded (no two names of the
\* model differ by case only)
match_name(name, text) == name = "" \/ Plain(name) = Condensed(text)

\* whether the module dig.py binds the name json_dumps (it imports json)
JsonDumpsBound == FALSE

\* person_optout(person), with the cache attached.  The entry under
\* sha256(email) is read: one without the key OptOut raises KeyError, one
\* with OptOut true returns True, one whose name matches is deleted, any
\* other has an HTTPException returned.  Then person is rebound to the record
\* of the opt-out and the arguments of ar.cache.set are evaluated: the key
\* from person["email"], which is by now the email of that record, and
\* json_dumps(person)
PersonOptout(email, name) ==
  /\ pc = "startup"
  /\ cache.attached
  /\ optreq = NoRequest
  /\ LET p == cache.store[sha256(email)]
         deleted == [cache EXCEPT !.store[sha256(email)] = NoEntry]
         stored == IF JsonDumpsBound
                     THEN [outcome |-> "True",
                           cache |-> [deleted EXCEPT !.store[sha256(DoNotDigEmail)] =
                                                       OptOutMarker(name)]]
                     ELSE [outcome |-> "NameError", cache |-> deleted]
         found ==
           IF p.OptOut = "absent" THEN [outcome |-> "KeyError", cache |-> cache]
           ELSE IF p.OptOut = "true" THEN [outcome |-> "True", cache |-> cache]
           ELSE IF match_name(name, p.name) THEN stored
           ELSE [outcome |-> "HTTPException", cache |-> cache]
         end == IF p.present THEN found
                ELSE [stored EXCEPT !.cache = IF JsonDumpsBound
                                                THEN [cache EXCEPT !.store[sha256(DoNotDigEmail)] =
                                                                     OptOutMarker(name)]
                                                ELSE cache]
     IN /\ optreq' = [email |-> email, name |-> name, outcome |-> end.outcome]
        /\ cache' = end.cache
  /\ UNCHANGED <<excavators, ar_fields, pc, person, fields, field, ei, exc, upgraded,
                 modified, ret, call, invocations, merges, optout, failed, outputs, snapshot,
                 written, coerced, bound, peer, miners, elements, al_loaded, bulk,
                 mined>>

\* the records person_email and person_post hand to ar.person()
EmailInputs ==
  {[k \in {"email", "name"} |-> IF k = "email" THEN Scalar(e) ELSE Scalar(n)] :
     e \in Emails, n \in Atoms}

\* the service with its cache: opt-out requests, then archaeology requests
NextOptOut ==
  \/ \E kw \in Declarations : Register(kw)
  \/ \E store \in Stores : Lifespan(store)
  \/ \E e \in Emails, n \in Atoms : PersonOptout(e, n)
  \/ \E p \in EmailInputs : Person(p)
  \/ NextField
  \/ SkipExcavator
  \/ Invoke
  \/ \E r \in PairResults : EndpointReturns(r)
  \/ EndpointRaises
  \/ EndField
  \/ ReturnPerson

SpecOptOut == Init /\ [][NextOptOut]_vars

TypeOK ==
  /\ pc \in {"startup", "misconfigured", "idle", "bulk", "posted", "fields",
            "excavators", "await", "raised", "cancelled", "done",
            "al_elements", "al_miners", "al_await", "al_raised", "al_done"}
  /\ ar_fields \subseteq OrderedSet
  /\ modified \in BOOLEAN

\* the steps of a running person() call; the event loop runs the coroutine
\* whenever it can go on, and an awaited endpoint ends by returning or raising
Step ==
  \/ NextField
  \/ SkipExcavator
  \/ Invoke
  \/ \E r \in Results : EndpointReturns(r)
  \/ EndpointRaises
  \/ EndField
  \/ ReturnPerson

LiveSpec == Spec /\ WF_vars(Step)

(* ------------------------------- claims -------------------------------- *)

InSession == pc \in {"fields", "excavators", "await"}

\* C1: within one person() call no excavator is called twice with the same
\* value of its trigger field, and whenever an endpoint is being awaited the
\* ledger of its excavator already holds the (field, value) it was called on
C1_NoReinvocation ==
  /\ \A i, j \in 1..Len(invocations) : invocations[i] = invocations[j] => i = j
  /\ pc = "await" =>
       \E i \in 1..Len(exc[CurrentExcavator.endpoint]) :
         exc[CurrentExcavator.endpoint][i] = LedgerEntry(field, person)

\* a field has come back on the list and an excavator that already saw its
\* value is about to be skipped
C1_Witness ==
  /\ pc = "excavators"
  /\ ei <= Len(excavators[field])
  /\ Len(invocations) >= 2
  /\ \E i \in 1..Len(invocations) :
       /\ invocations[i].endpoint = CurrentExcavator.endpoint
       /\ invocations[i].field = field
       /\ invocations[i].value = person[field]

InvocationsOn(f) == {i \in 1..Len(invocations) : invocations[i].field = f}
ValuesPresented(f) == {invocations[i].value : i \in InvocationsOn(f)}

C6_InsertOnly ==
  [][pc = "await" =>
       \A x \in CurrentExcavator.insert \ CurrentExcavator.update :
         x \in DOMAIN person => (x \in DOMAIN person' /\ person'[x] = person[x])]_vars

\* an insert-only excavator has just proposed another value for a field that
\* was there, and upgrade took its insert-mode branch
C6_Witness ==
  \E i \in 1..Len(merges) :
    /\ merges[i].branch = "insert mode"
    /\ merges[i].v # merges[i].before[merges[i].k]

\* C7: a set-annotated field never loses an element and, once it holds a
\* set, holds a set ever after; a bare value stored in it stays as a member
C7_Monotonic ==
  [][\A f \in DOMAIN person \cap SetFields :
       /\ f \in DOMAIN person'
       /\ person[f].elems \subseteq person'[f].elems
       /\ person[f].isset => person'[f].isset]_vars

\* a set-annotated field that held a bare value has just been turned into a
\* set holding that value and a new one
C7_Witness ==
  \E i \in 1..Len(merges) :
    LET m == merges[i]
    IN /\ m.k \in SetFields
       /\ m.k \in DOMAIN m.before
       /\ ~m.before[m.k].isset
       /\ m.after[m.k].isset
       /\ m.before[m.k].elems \subseteq m.after[m.k].elems
       /\ m.before[m.k].elems # m.after[m.k].elems

\* C3: once an endpoint of the session has returned OptOut, no endpoint is
\* called any more in that session
C3_OptOutShortCircuit ==
  [][(optout /\ optout') => invocations' = invocations]_vars

\* C4: a person() call in which an endpoint returned OptOut returns modified
\* = False and does not hand back the enriched record
C4_OptOutResult ==
  (pc = "done" /\ optout) => (~ret.modified /\ ret.person # person)

\* C5: a raising endpoint counts as an empty result: no person() call is
\* left by an exception, the call goes on and returns to its caller
C5_FailureRecovered ==
  failed => pc \in {"fields", "excavators", "await", "done"}

\* C8: with endpoints that return the same result whenever they are called
\* (and none of them OptOut), a person() call on the record returned by the
\* previous call returns modified = False
C8_Idempotent ==
  (/\ pc = "done"
   /\ call >= 2
   /\ \A e \in Endpoints : \A r \in outputs[e] : ~HasKey(r, "OptOut"))
  => ~ret.modified

\* C9: calling upgrade a second time with the same key and value right
\* after a first call returns nothing truthy and leaves the record as it is
C9_MergeIdempotent ==
  \A i \in 1..Len(merges) :
    LET again == upgrade(merges[i].after, excavators[field][ei - 1],
                         merges[i].k, merges[i].v)
    IN ~again.modified /\ again.person = merges[i].after

\* C10: when the record holds name = N, a result whose alternateName is N
\* (as handed to upgrade, after run has coerced it) is not written and not
\* reported as upgraded, and a result whose alternateName is another value
\* is written when alternateName is not in the record yet
C10_Suppression ==
  \A i \in 1..Len(merges) :
    LET m == merges[i]
    IN (m.k = "alternateName" /\ "name" \in DOMAIN m.before) =>
         IF m.v.elems = m.before["name"].elems
           THEN ~m.modified /\ m.after = m.before
           ELSE m.k \notin DOMAIN m.before =>
                  (m.modified /\ m.v.elems \subseteq m.after[m.k].elems)

\* the excavators registered on field g have all been called, in this
\* session, on the value g holds now
ExcavatedAsIs(g) ==
  \A i \in 1..Len(excavators[g]) :
    \E j \in 1..Len(invocations) :
      invocations[j] = [endpoint |-> excavators[g][i].endpoint, field |-> g,
                        value |-> person[g]]

\* C11: when the excavators of a field have written a field g that has
\* excavators of its own, g is appended to the list of fields once they have
\* all run, and by the time person() returns the excavators of every such g
\* have been called on what they unlocked: each of them has been presented
\* with the value g ends with
C11_Propagation ==
  /\ [][(pc = "excavators" /\ pc' = "fields") =>
          \A g \in upgraded \cap ar_fields :
            \E i \in (Len(fields) + 1)..Len(fields') : fields'[i] = g]_vars
  /\ [](pc = "done" => \A g \in written \cap ar_fields : ExcavatedAsIs(g))

\* C12: person() returns modified = True exactly when some call of upgrade
\* in the session has written a field of the record; it returns the record
\* with modified = True and an empty one with modified = False
C12_ResultFlag ==
  pc = "done" =>
    /\ ret.modified <=> (written # {})
    /\ ret.person = IF ret.modified THEN person ELSE EmptyDict

\* the ledger a frame would hold if it were made of its own calls only
OwnLedger(fr, e) ==
  LET own == SelectSeq(fr.invocations, LAMBDA x : x.endpoint = e)
  IN [i \in 1..Len(own) |->
        LedgerEntry(own[i].field, [k \in {own[i].field} |-> own[i].value])]

FrameIsolated(fr) ==
  /\ \A e \in Endpoints : fr.exc[e] = OwnLedger(fr, e)
  /\ \A i, j \in 1..Len(fr.invocations) :
       fr.invocations[i] = fr.invocations[j] => i = j

\* C13: two person() calls on records of their own, interleaved at the
\* awaits, share nothing that either of them changes: the ledger of each is
\* made of its own calls only, so that what it skips and what it calls is
\* what it would alone, the frame of the suspended one (its record, its
\* list of fields, its flag, its result) is found as it was left, and the
\* catalog both read is changed by neither
C13_Isolation ==
  /\ [](FrameIsolated(Frame) /\ FrameIsolated(peer))
  /\ [][peer' # peer => (peer' = Frame /\ Frame' = peer)]_vars
  /\ [][pc # "startup" => UNCHANGED <<excavators, ar_fields>>]_vars

\* both coroutines are suspended, having called the same excavator on the
\* same field and value, and one of them is at its second call at least
C13_Witness ==
  /\ pc = "await"
  /\ peer.pc = "await"
  /\ Len(invocations) >= 2
  /\ \E i \in 1..Len(invocations) : \E j \in 1..Len(peer.invocations) :
       invocations[i] = peer.invocations[j]

\* C14: a person() call cancelled while it awaits an endpoint hands back the
\* record as the merges done so far have left it, with modified telling
\* whether any was done
C14_CancelKeepsPartial ==
  pc = "cancelled" =>
    LET applied == modified \/ upgraded # {}
    IN ret = [modified |-> applied, person |-> IF applied THEN person ELSE EmptyDict]

\* the items of a coerced result that person_ta accepts
ValidItems(p_exc) ==
  SelectSeq(p_exc, LAMBDA it : IF is_field_set(it.k) THEN it.v.isset ELSE ~it.v.isset)

\* C15: when an endpoint returns a result with a value that does not fit the
\* type of its field, that item alone is dropped: the other items of the
\* result are merged and the person() call goes on with the next excavator
C15_SchemaViolationLocal ==
  [][\A r \in Results :
       (/\ r # <<>>
        /\ ~ValidPerson(dict_to_person(r))
        /\ EndpointReturns(r))
       => /\ pc' = "excavators"
          /\ person' = excavate(person, CurrentExcavator,
                                ValidItems(dict_to_person(r))).person]_vars

\* C16: a registration on a field that is not a declared trigger field ends
\* with an error at registration: its function never gets through a
\* register() call, of the Archeologist or of the Alchemist, no catalog ever
\* holds an undeclared field, and the failing call leaves the catalog as it was
C16_FailFast ==
  /\ [](/\ ar_fields \cup elements \subseteq OrderedSet
        /\ \A kw \in BadDeclarations :
             kw.endpoint \notin Registered \cup MinersRegistered \cup al_loaded)
  /\ [][pc' = "misconfigured" => UNCHANGED <<excavators, ar_fields>>]_vars

\* the fields of record p that have excavators, in the order of
\* _ordered_elements
DeclarationOrder(p) ==
  SelectSeq(ordered_elements, LAMBDA f : f \in DOMAIN p /\ f \in ar_fields)

\* C17: the list person() starts from holds the fields of the record that
\* have excavators, in the order in which _ordered_elements declares them
C17_InitialOrder ==
  [][call' = call + 1 => fields' = DeclarationOrder(person')]_vars

\* C18: the excavators of a field are called one after the other in the
\* order of their registration: when one is called, those registered before
\* it on the field have been presented with the field in this session, and
\* what it is called with holds, for every key it takes, the value the
\* excavator just before it has written
C18_ReadAfterWrite ==
  [][(pc = "excavators" /\ pc' = "await") =>
       /\ \A i \in 1..(ei - 1) :
            \E j \in 1..Len(invocations) :
              /\ invocations[j].endpoint = excavators[field][i].endpoint
              /\ invocations[j].field = field
       /\ \A m \in 1..Len(merges) :
            (/\ merges[m].modified
             /\ CurrentExcavator.person_param
                  \/ merges[m].k \in CurrentExcavator.parameters)
            => /\ merges[m].k \in DOMAIN bound'
               /\ bound'[merges[m].k] = merges[Len(merges)].after[merges[m].k]
               /\ merges[m].v.elems \subseteq bound'[merges[m].k].elems]_vars

\* the second excavator of a field is being awaited, called with a value
\* that the first has written during this pass over the field
C18_Witness ==
  /\ pc = "await"
  /\ ei >= 2
  /\ \E k \in (upgraded \cap DOMAIN bound) \ {field} : bound[k] = person[k]

\* C19: a bulk task reports the outcome of every record of the list,
\* whatever happens to the others: when the task has ended, by the post or by
\* an exception, no record is left unprocessed and the records enriched so
\* far have been posted
C19_BulkIndependence ==
  (bulk.active /\ pc \in {"posted", "raised"}) =>
    /\ bulk.persons = <<>>
    /\ bulk.results # <<>> => bulk.posted

\* C20: when an excavator with an update list returns, for a set-annotated
\* field of that list that the record does not have (and that is not an
\* alternateName equal to the name), a bare value, the field is added as the
\* set holding that value alone, the key is reported as upgraded, nothing
\* else in the record changes, and a person() call in which a field was
\* written returns True with the record
C20_AddWithCoercion ==
  /\ [][\A r \in Results :
          (/\ pc = "await"
           /\ Len(r) = 1
           /\ r[1].k \in SetFields \cap CurrentExcavator.update
           /\ r[1].k \notin DOMAIN person
           /\ ~r[1].v.isset
           /\ r[1].k = "alternateName" => r[1].v # person["name"]
           /\ EndpointReturnsTraced(r))
          => /\ pc' = "excavators"
             /\ person' = DictSet(person, r[1].k, SetOf(r[1].v.elems))
             /\ r[1].k \in upgraded']_vars
  /\ []((pc = "done" /\ written # {}) => ret = [modified |-> TRUE, person |-> person])

\* an excavator with an update list has just added a set-annotated field
\* from the bare value it returned: the field holds that value alone
C20_Witness ==
  /\ pc = "excavators"
  /\ ei >= 2
  /\ \E m \in 1..Len(merges) :
       /\ merges[m].k \in coerced \cap SetFields \cap excavators[field][ei - 1].update
       /\ merges[m].branch = "add"
       /\ merges[m].k \notin DOMAIN merges[m].before
       /\ Cardinality(merges[m].v.elems) = 1
       /\ person[merges[m].k] = SetOf(merges[m].v.elems)
       /\ \A k \in DOMAIN merges[m].before : person[k] = merges[m].before[k]

\* C21: once person_optout has returned True for a person, the store holds
\* under sha256 of that person's email a record with OptOut true and with
\* nothing of the data cached before (the name it holds is a digest), and a
\* person() call for that email calls no endpoint
C21_OptOutEndpoint ==
  optreq.outcome = "True" =>
    LET e == cache.store[sha256(optreq.email)]
    IN /\ e.present
       /\ e.OptOut = "true"
       /\ e.name.digest
       /\ ("email" \in DOMAIN person /\ person["email"] = Scalar(optreq.email))
            => invocations = <<>>

\* C22: a call of upgrade on a set-annotated field that holds a set, with a
\* value whose elements are all in that set already, writes nothing and
\* reports nothing: the record is as before and upgrade returns nothing truthy
C22_UnchangedByMembership ==
  \A i \in 1..Len(merges) :
    LET m == merges[i]
    IN (/\ m.k \in SetFields
        /\ m.k \in DOMAIN m.before
        /\ m.before[m.k].isset
        /\ m.v.elems \subseteq m.before[m.k].elems)
       => (~m.modified /\ m.after = m.before)

\* C23: the fields that person() appends to its list once the excavators
\* of a field have run are fields whose value is not what it was before they
\* ran: each was added to the record or holds another value
C23_ReenqueueOnChange ==
  [][(pc = "excavators" /\ pc' = "fields") =>
       \A i \in (Len(fields) + 1)..Len(fields') :
         /\ snapshot.pass.taken
         /\ \/ fields'[i] \notin DOMAIN snapshot.pass.person
            \/ person[fields'[i]] # snapshot.pass.person[fields'[i]]]_vars

\* C24: the part of the list of fields that person() has not iterated yet
\* never holds a field twice
C24_NoDuplicatePending ==
  \A i, j \in 1..Len(fields) : fields[i] = fields[j] => i = j

\* C25: an excavator of the field being excavated is skipped only when it
\* has been called, in this session, on the value the field holds now; one
\* that has not been presented with that value is called
C25_InvokedOnNewValue ==
  [][SkipExcavator =>
       \E j \in 1..Len(invocations) :
         invocations[j] = [endpoint |-> CurrentExcavator.endpoint, field |-> field,
                           value |-> person[field]]]_vars

\* C26: what Alchemist.person keeps of the values presented to the miners
\* is kept for the call alone: a miner is skipped only when it has been
\* called on that element in this call, and a call that returns has called
\* every miner of every element of its record
C26_AlchemistLedgerScope ==
  /\ [][SkipMiner =>
          \E j \in 1..Len(invocations) :
            /\ invocations[j].endpoint = CurrentMiner.endpoint
            /\ invocations[j].field = field]_vars
  /\ [](pc = "al_done" =>
          \A el \in DOMAIN person \cap elements :
            \A i \in 1..Len(miners[el]) :
              \E j \in 1..Len(invocations) :
                /\ invocations[j].endpoint = miners[el][i].endpoint
                /\ invocations[j].field = el)

\* C27: within one Alchemist.person() call no miner is called twice on the
\* same value of its element, whatever the other miners of the element do
C27_AlchemistNoReinvocation ==
  pc \in {"al_elements", "al_miners", "al_await", "al_raised", "al_done"} =>
    \A i, j \in 1..Len(invocations) : invocations[i] = invocations[j] => i = j

\* C28: an excavator that declares a dict parameter is called with the
\* record as it is at the time of the call; any other is called with the
\* fields of that record whose names are among its parameters and with
\* nothing else, a parameter the record does not have not being passed
C28_ParameterBinding ==
  [][(pc = "excavators" /\ pc' = "await") =>
       IF CurrentExcavator.person_param
         THEN bound' = person
         ELSE /\ DOMAIN bound' = CurrentExcavator.parameters \cap DOMAIN person
              /\ \A k \in DOMAIN bound' : bound'[k] = person[k]]_vars

\* an excavator with named parameters is being awaited, called on a name
\* written in this session, while the record holds a field it does not take
\* and lacks one of its parameters
C28_Witness ==
  /\ pc = "await"
  /\ ~CurrentExcavator.person_param
  /\ DOMAIN person \ CurrentExcavator.parameters # {}
  /\ CurrentExcavator.parameters \ DOMAIN person # {}
  /\ Len(invocations) >= 2
  /\ "name" \in DOMAIN bound
  /\ bound["name"] = Scalar(AtomNames[2])
  /\ bound["name"] = person["name"]

\* the keys of the record that a step has added or given another value
Written == {k \in DOMAIN person' : k \notin DOMAIN person \/ person'[k] # person[k]}

\* C29: an excavator with an insert or an update list writes no field that
\* is in neither list (one with both lists empty may write any field it
\* returns), and no excavator writes a field for which it returned an empty
\* value
C29_WritePolicyScope ==
  /\ [][pc = "await" =>
          (CurrentExcavator.catchall
             \/ Written \subseteq CurrentExcavator.update \cup CurrentExcavator.insert)]_vars
  /\ [][\A r \in Results \cup EmptyValueResults :
          EndpointReturns(r) =>
            \A i \in 1..Len(r) : r[i].v.elems = {} => r[i].k \notin Written]_vars

\* C30: the record changes only when an endpoint has returned, and then
\* only in keys that upgrade reports as written (its branches add and
\* update); whatever the endpoint called returns, excavate leaves every key
\* that the result does not hold as it is; so a person() call that returns
\* modified = False leaves the record as it was when the call began
C30_FrameOnNoOp ==
  /\ [][(person' # person /\ call' = call) => pc = "await"]_vars
  /\ [][(pc = "await" /\ person' # person) =>
          Written \subseteq
            {merges'[i].k : i \in {j \in 1..Len(merges') :
                                     /\ merges'[j].modified
                                     /\ merges'[j].branch \in {"add", "update"}}}]_vars
  /\ [][(pc # "await" /\ pc' = "await") =>
          \A r \in Results :
            (r = <<>> \/ (~HasUnknownKey(r) /\ ValidPerson(dict_to_person(r)))) =>
              \A x \in {excavate(person', CurrentExcavator', dict_to_person(r))} :
                \A k \in DOMAIN x.person :
                  (k \notin DOMAIN person' \/ x.person[k] # person'[k])
                    => HasKey(r, k)]_vars
  /\ [][(pc' = "done" /\ ~ret'.modified /\ snapshot'.call.taken)
          => person' = snapshot'.call.person]_vars

\* no field has been written so far in the call, and the excavator that has
\* just returned proposed another value for a field of the record, which was
\* refused: the record is as it was when the call began
C30_Witness ==
  /\ pc = "excavators"
  /\ ~modified
  /\ upgraded = {}
  /\ snapshot.call.taken
  /\ person = snapshot.call.person
  /\ \E i \in 1..Len(merges) :
       /\ ~merges[i].modified
       /\ merges[i].k \in DOMAIN person
       /\ CoerceValue(merges[i].k, person[merges[i].k]) # merges[i].v

====
